---- MODULE Spec2Model ----
(***************************************************************************)
(* A model of three fragments of the framework:                            *)
(*   - lib/metadata/resolve-metadata.ts: merge, getDefinedMetadata,        *)
(*     resolveStaticMetadata, collectMetadata, accumulateMetadata;         *)
(*   - the TypeScript diagnostic formatter (getFormattedDiagnostic);       *)
(*   - the router-state initializer (createInitialRouterState).            *)
(*                                                                         *)
(* JavaScript values are tuples of strings: <<"null">>, <<"undefined">>,   *)
(* <<"str", s>>, and tagged tuples for objects.  A Metadata object is a    *)
(* function whose DOMAIN is the set of keys the object has.  Text is a     *)
(* sequence of tokens; the regular expressions of the formatter are        *)
(* matched over token sequences.                                           *)
(***************************************************************************)
EXTENDS Integers, Sequences, FiniteSets, TLC

VARIABLES
    \* collectMetadata / accumulateMetadata
    phase,        \* "collect" | "error" | "loop" | "await" | "resolved" | "rejected"
    array,        \* the MetadataItems array collectMetadata pushes to
    err,          \* the Error thrown by getDefinedMetadata, <<>> when none
    fnState,      \* per loop iteration: state of the layer's metadata function
    chain,        \* per loop iteration: state of parentPromise after the iteration
    outerRan,     \* per loop iteration: parentPromise.then callback has run
    resolved,     \* resolvedMetadata, the one object every promise resolves to
    merged,       \* the layers merge() was called for, in call order
    observed,     \* layer -> what its function saw when its parent promise resolved
    handed,       \* the templates handed to mergeTitle, in call order
    result,       \* what the promise returned by accumulateMetadata resolved to
    calls,        \* history: the layers collectMetadata was called with
    outOfOrder,   \* history: some function settled before an earlier layer's did
    \* merge, applied to drawn inputs
    mPhase, mTarget, mSource, mTemplates, mOut,
    \* getFormattedDiagnostic
    dPhase, dIn, dOut,
    \* createInitialRouterState
    heap,         \* the Map objects allocated so far: address -> contents
    rCalls        \* the calls made: <<parameters, returned state>>

metaVars == <<phase, array, err, fnState, chain, outerRan, resolved,
              merged, observed, handed, result, calls, outOfOrder>>
mergeVars == <<mPhase, mTarget, mSource, mTemplates, mOut>>
diagVars == <<dPhase, dIn, dOut>>
routerVars == <<heap, rCalls>>
vars == <<metaVars, mergeVars, diagVars, routerVars>>

(***************************************************************************)
(* Bounds.                                                                 *)
(***************************************************************************)
MaxLayers == 3
MaxCalls == 2

(***************************************************************************)
(* JavaScript values.                                                      *)
(***************************************************************************)
Null == <<"null">>
Undefined == <<"undefined">>
Str(s) == <<"str", s>>
NoTemplate == "<null>"

\* JavaScript truthiness of a value.
Truthy(v) == v \notin {Null, Undefined, Str("")}

\* a || null
OrNull(v) == IF Truthy(v) THEN v ELSE Null

\* tpl || null, for a template string
TemplateOrNull(t) == IF t = "" THEN NoTemplate ELSE t

(***************************************************************************)
(* The keys merge() switches on.                                           *)
(***************************************************************************)
ArrayKeys == {"archives", "assets", "bookmarks", "keywords", "authors"}
DirectKeys == {"applicationName", "description", "generator", "themeColor",
               "creator", "publisher", "category", "classification",
               "referrer", "colorScheme", "itunes", "formatDetection"}
ResolverKeys == {"verification", "viewport", "icons", "appleWebApp",
                 "appLinks", "robots"}
SocialKeys == {"openGraph", "twitter"}
ResolvedKeys == ArrayKeys \cup DirectKeys \cup ResolverKeys \cup SocialKeys
                  \cup {"title", "alternates", "other", "metadataBase"}

\* A key/value object with no keys.
EmptyObject == [k \in {} |-> Null]

\* { ...a, ...b }; spreading null adds nothing.
Spread(a, b) == [k \in DOMAIN a \cup DOMAIN b |-> IF k \in DOMAIN b THEN b[k] ELSE a[k]]

(***************************************************************************)
(* Collaborators of merge() that live outside these files.                 *)
(* A source title is <<"str", text>> or <<"title", template, default,      *)
(* absolute>>; a resolved title is <<"abs", template, stashed, text>>: its *)
(* own template, and the text with the stashed (parent) template applied.  *)
(***************************************************************************)
createDefaultMetadata ==
    [k \in ResolvedKeys |->
        IF k = "other" THEN EmptyObject
        ELSE IF k = "viewport" THEN Str("width=device-width, initial-scale=1")
        ELSE Null]

\* mergeTitle(target, stashedTemplate) for target.title = title.
mergeTitle(title, stashedTemplate) ==
    IF title[1] = "str"
    THEN <<"abs", NoTemplate, stashedTemplate, title[2]>>
    ELSE IF title[1] = "title"
    THEN <<"abs", IF title[2] = "" THEN NoTemplate ELSE title[2],
           IF title[4] # "" THEN NoTemplate ELSE stashedTemplate,
           IF title[4] # "" THEN title[4] ELSE title[3]>>
    ELSE <<"abs", NoTemplate, NoTemplate, "">>

\* metadataBase as the string the resolvers receive
BaseOf(metadataBase) == IF metadataBase = Null THEN NoTemplate ELSE metadataBase[2]

\* resolveOpenGraph / resolveTwitter: null for a falsy value; a source value is
\* <<tag, body, titleTemplate, titleDefault>>.
resolveSocial(v, metadataBase) ==
    IF ~Truthy(v) THEN Null
    ELSE <<"resolved", v[1], BaseOf(metadataBase), v[2], v[3], v[4]>>

\* mergeTitle(target.openGraph, template) on a resolved openGraph / twitter
mergeSocialTitle(r, stashedTemplate) ==
    LET t == mergeTitle(<<"title", r[5], r[6], "">>, stashedTemplate)
    IN  <<"merged", r[2], r[3], r[4], t[2], t[3], t[4]>>

resolveAlternates(v, metadataBase) == <<"resolveAlternates", BaseOf(metadataBase)>> \o v
resolveBasic(key, v) == <<"resolve", key>> \o v
resolveAsArrayOrUndefined(v) ==
    IF v \in {Null, Undefined} THEN Undefined ELSE <<"array">> \o v

(***************************************************************************)
(* resolved.title?.template || null, and the same for openGraph, twitter.  *)
(***************************************************************************)
TitleTemplateOf(t) == IF t = Null THEN NoTemplate ELSE TemplateOrNull(t[2])
SocialTemplateOf(r) == IF r = Null THEN NoTemplate ELSE TemplateOrNull(r[5])

TemplateStringsNone(target) ==
    [title |-> NoTemplate, openGraph |-> NoTemplate, twitter |-> NoTemplate]

TemplateStrings(target) ==
    [title |-> TitleTemplateOf(target["title"]),
     openGraph |-> SocialTemplateOf(target["openGraph"]),
     twitter |-> SocialTemplateOf(target["twitter"])]

(***************************************************************************)
(* merge(target, source, templateStrings): one switch case per key.        *)
(***************************************************************************)
MetadataBaseOf(source) ==
    IF "metadataBase" \in DOMAIN source THEN OrNull(source["metadataBase"]) ELSE Null

mergeKey(target, source, key, templateStrings) ==
    LET metadataBase == MetadataBaseOf(source)
        v == source[key]
    IN  CASE key = "title" ->
               IF Truthy(v)
               THEN [target EXCEPT !["title"] = mergeTitle(v, templateStrings.title)]
               ELSE target
          [] key = "alternates" ->
               [target EXCEPT !["alternates"] = resolveAlternates(v, metadataBase)]
          [] key \in SocialKeys ->
               LET r == resolveSocial(v, metadataBase)
               IN  [target EXCEPT ![key] =
                       IF r # Null THEN mergeSocialTitle(r, templateStrings[key]) ELSE r]
          [] key \in ResolverKeys ->
               [target EXCEPT ![key] = resolveBasic(key, v)]
          [] key \in ArrayKeys ->
               [target EXCEPT ![key] = OrNull(resolveAsArrayOrUndefined(v))]
          [] key \in DirectKeys ->
               [target EXCEPT ![key] = OrNull(v)]
          [] key = "other" ->
               [target EXCEPT !["other"] = Spread(Spread(EmptyObject, target["other"]), v)]
          [] key = "metadataBase" ->
               [target EXCEPT !["metadataBase"] = metadataBase]
          [] OTHER -> target

RECURSIVE mergeKeys(_, _, _, _)
mergeKeys(target, source, keys, templateStrings) ==
    IF keys = {} THEN target
    ELSE LET key == CHOOSE k \in keys : TRUE
         IN  mergeKeys(mergeKey(target, source, key, templateStrings), source,
                       keys \ {key}, templateStrings)

\* The bug "build the result afresh": fields the source lacks are reset.
mergeFresh(target, source, templateStrings) ==
    mergeKeys([k \in DOMAIN target |->
                  IF k \in DOMAIN source \/ k = "other" THEN target[k]
                  ELSE createDefaultMetadata[k]],
              source, DOMAIN source, templateStrings)

merge(target, source, templateStrings) ==
    mergeKeys(target, source, DOMAIN source, templateStrings)

\* The calls merge() makes to mergeTitle: the field and the template handed over.
mergeTitleCalls(source, templateStrings) ==
    {[field |-> k, template |-> templateStrings[k]] :
        k \in {f \in {"title"} \cap DOMAIN source : Truthy(source[f])}
               \cup {f \in SocialKeys \cap DOMAIN source :
                        resolveSocial(source[f], MetadataBaseOf(source)) # Null}}

(***************************************************************************)
(* "Metadata | null": isNull, and the object when it is not null.          *)
(***************************************************************************)
NullMetadata == [isNull |-> TRUE, meta |-> EmptyObject]
SomeMetadata(m) == [isNull |-> FALSE, meta |-> m]

(***************************************************************************)
(* getDefinedMetadata(mod, props).  A module is [client, path, hasMetadata,*)
(* metadata, hasGenerate, generates]: generates is what generateMetadata   *)
(* resolves to when it resolves.  The export returned is                   *)
(* [kind, value]: kind "null" | "object" | "function".                     *)
(***************************************************************************)
NullExport == [kind |-> "null", value |-> NullMetadata]

BothExportsError(mod) ==
    <<mod.path,
      " is exporting both metadata and generateMetadata which is not supported. If all of the metadata you want to associate to this page/layout is static use the metadata export, otherwise use generateMetadata. File: ",
      mod.path>>

\* The bug "check the exports before the client-reference test".
getDefinedMetadataCheckFirst(mod) ==
    IF mod.hasMetadata /\ mod.hasGenerate
    THEN [throws |-> TRUE, error |-> BothExportsError(mod), value |-> NullExport]
    ELSE IF mod.client
    THEN [throws |-> FALSE, error |-> <<>>, value |-> NullExport]
    ELSE [throws |-> FALSE, error |-> <<>>,
          value |-> IF mod.hasGenerate
                    THEN [kind |-> "function", value |-> mod.generates]
                    ELSE IF mod.hasMetadata
                    THEN [kind |-> "object", value |-> SomeMetadata(mod.metadata)]
                    ELSE NullExport]

getDefinedMetadata(mod) ==
    IF mod.client
    THEN [throws |-> FALSE, error |-> <<>>, value |-> NullExport]
    ELSE IF mod.hasMetadata /\ mod.hasGenerate
    THEN [throws |-> TRUE, error |-> BothExportsError(mod), value |-> NullExport]
    ELSE [throws |-> FALSE, error |-> <<>>,
          value |-> IF mod.hasGenerate
                    THEN [kind |-> "function", value |-> mod.generates]
                    ELSE IF mod.hasMetadata
                    THEN [kind |-> "object", value |-> SomeMetadata(mod.metadata)]
                    ELSE NullExport]

(***************************************************************************)
(* collectStaticFsBasedIcons(metadata, type) and resolveStaticMetadata.    *)
(* components.metadata is [present, files]: files maps "icon" / "apple"    *)
(* (when the key exists) to the list of icons its resolvers load.          *)
(***************************************************************************)
\* undefined is <<>>; otherwise the icons loaded
collectStaticFsBasedIcons(metadata, type) ==
    IF type \notin DOMAIN metadata.files THEN <<>>
    ELSE IF Len(metadata.files[type]) > 0 THEN metadata.files[type] ELSE <<>>

StaticIcons(icon, apple) ==
    <<"icons">> \o (IF icon # <<>> THEN <<"icon:">> \o icon ELSE <<>>)
                \o (IF apple # <<>> THEN <<"apple:">> \o apple ELSE <<>>)

resolveStaticMetadata(metadata) ==
    IF ~metadata.present THEN NullMetadata
    ELSE LET icon == collectStaticFsBasedIcons(metadata, "icon")
             apple == collectStaticFsBasedIcons(metadata, "apple")
         IN  SomeMetadata([icons |-> StaticIcons(icon, apple)])

(***************************************************************************)
(* The layers drawn: a layout/page module (or none) and the static         *)
(* metadata files of its segment.                                          *)
(***************************************************************************)
MetaA == [title |-> <<"title", "%s | Site", "Home", "">>,
          description |-> Str("root"),
          openGraph |-> <<"openGraph", "og-root", "%s | OG", "Home">>,
          icons |-> <<"icons", "icon:", "/exported-a.png">>,
          other |-> [a |-> Str("1")]]
MetaB == [title |-> Str("About"),
          keywords |-> <<"k1", "k2">>,
          metadataBase |-> <<"url", "https://b.example">>,
          twitter |-> <<"twitter", "tw-b", "", "About">>,
          icons |-> <<"icons", "icon:", "/exported-b.png">>,
          other |-> [a |-> Str("2"), b |-> Str("3")]]
MetaC == [title |-> <<"title", "%s | Blog", "Blog", "">>,
          description |-> Str(""),
          openGraph |-> <<"openGraph", "og-c", "", "Post">>]
MetaD == [title |-> Str(""),
          alternates |-> <<"canonical", "/d">>,
          icons |-> <<"icons", "icon:", "/exported-d.png">>]

NoModule == [present |-> FALSE, client |-> FALSE, path |-> "", hasMetadata |-> FALSE,
             metadata |-> EmptyObject, hasGenerate |-> FALSE, generates |-> NullMetadata]
StaticModule(path, m) == [NoModule EXCEPT !.present = TRUE, !.path = path,
                                          !.hasMetadata = TRUE, !.metadata = m]
DynamicModule(path, g) == [NoModule EXCEPT !.present = TRUE, !.path = path,
                                           !.hasGenerate = TRUE, !.generates = g]
BothModule(path) == [StaticModule(path, MetaA) EXCEPT !.hasGenerate = TRUE,
                                                      !.generates = SomeMetadata(MetaC)]
ClientModule(path) == [BothModule(path) EXCEPT !.client = TRUE]

NoStaticFiles == [present |-> FALSE, files |-> EmptyObject]
StaticFiles(f) == [present |-> TRUE, files |-> f]

Layers ==
    { [mod |-> NoModule, metadata |-> NoStaticFiles],
      [mod |-> ClientModule("app/client/page"),
       metadata |-> StaticFiles([icon |-> <<>>])],
      [mod |-> StaticModule("app/layout", MetaA), metadata |-> NoStaticFiles],
      [mod |-> StaticModule("app/about/layout", MetaB), metadata |-> StaticFiles(EmptyObject)],
      [mod |-> DynamicModule("app/blog/layout", SomeMetadata(MetaC)),
       metadata |-> NoStaticFiles],
      [mod |-> StaticModule("app/blog/post/page", MetaD),
       metadata |-> StaticFiles([icon |-> <<"/icon.png">>, apple |-> <<"/apple.png">>])],
      [mod |-> DynamicModule("app/draft/page", NullMetadata),
       metadata |-> StaticFiles([apple |-> <<"/apple.png">>])],
      [mod |-> BothModule("app/both/page"), metadata |-> NoStaticFiles],
      [mod |-> BothModule("app/both/layout"),
       metadata |-> StaticFiles([icon |-> <<"/icon.png">>])] }

(***************************************************************************)
(* collectMetadata(loaderTree, props, array)                               *)
(***************************************************************************)
collectMetadata(layer) ==
    LET staticFilesMetadata == resolveStaticMetadata(layer.metadata)
        defined == getDefinedMetadata(layer.mod)
    IN  IF layer.mod.present /\ defined.throws
        THEN /\ phase' = "error"
             /\ err' = defined.error
             /\ array' = array
        ELSE /\ array' = Append(array,
                    [exp |-> IF layer.mod.present THEN defined.value ELSE NullExport,
                     static |-> staticFilesMetadata])
             /\ UNCHANGED <<phase, err>>

CollectFrom(layers) ==
    /\ phase = "collect"
    /\ Len(array) < MaxLayers
    /\ \E layer \in layers : collectMetadata(layer) /\ calls' = Append(calls, layer)
    /\ UNCHANGED <<fnState, chain, outerRan, resolved, merged, observed,
                   handed, result, outOfOrder>>
    /\ UNCHANGED <<mergeVars, diagVars, routerVars>>

Collect == CollectFrom(Layers)

(***************************************************************************)
(* accumulateMetadata(metadataItems).  Layer i is array[i]; P(0) is        *)
(* Promise.resolve(resolvedMetadata) and P(i) = chain[i] is parentPromise  *)
(* after iteration i.                                                      *)
(***************************************************************************)
IsFunction(item) == item.exp.kind = "function"

\* Which promise iteration i hands to the layer's function: P(i - 1).
ParentIndexOwn(i) == i
ParentIndexGrand(i) == i - 2
ParentIndex(i) == i - 1

PromiseState(k) == IF k <= 0 THEN "fulfilled"
                   ELSE IF k > Len(chain) THEN "pending" ELSE chain[k]

\* layerMetadataPromise of iteration i
LayerPromise(i) ==
    IF ~IsFunction(array[i]) THEN "fulfilled"
    ELSE IF fnState[i] \in {"fulfilled", "rejected"} THEN fnState[i] ELSE "pending"

\* What layerMetadataPromise resolves to.
Exported(item) == item.exp.value

\* exportedMetadata || staticFilesMetadata
LayerMetadata(item) == IF ~Exported(item).isNull THEN Exported(item) ELSE item.static

\* { ...metadata, ...staticFilesMetadata }
LayerSource(item) == Spread(LayerMetadata(item).meta, item.static.meta)

\* The body of the inner then callback on the accumulated metadata.
MergeLayer(target, item) ==
    IF LayerMetadata(item).isNull THEN target
    ELSE merge(target, LayerSource(item), TemplateStrings(target))

\* The bug "merge as soon as the layer's own promise resolves".
CanMergeUnchained(i) == LayerPromise(i) = "fulfilled"
CanMerge(i) == outerRan[i] /\ LayerPromise(i) = "fulfilled"

\* Microtasks and function continuations run once the synchronous loop is over.
Running == phase \in {"await", "resolved", "rejected"}

\* Some earlier layer's metadata function has not settled yet.
EarlierUnsettled(i) ==
    \E j \in 1..(i - 1) :
       IsFunction(array[j]) /\ fnState[j] \notin {"fulfilled", "rejected", "threw"}

accFrame == /\ UNCHANGED <<array, err, calls>>
            /\ UNCHANGED <<mergeVars, diagVars, routerVars>>

\* accumulateMetadata is called with the collected array (lines 206-207).
StartAccumulate ==
    /\ phase = "collect"
    /\ phase' = "loop"
    /\ resolved' = createDefaultMetadata
    /\ UNCHANGED <<fnState, chain, outerRan, merged, observed, handed, result>>
    /\ UNCHANGED outOfOrder
    /\ accFrame

\* One iteration of the for loop: the export is called if it is a function and
\* the then callbacks are chained on parentPromise.  A function returns a value
\* ("fulfilled"), returns a pending promise ("running") or throws.
LoopIter ==
    /\ phase = "loop"
    /\ Len(fnState) < Len(array)
    /\ LET item == array[Len(fnState) + 1]
       IN  \/ /\ ~IsFunction(item)
              /\ fnState' = Append(fnState, "none")
              /\ chain' = Append(chain, "pending")
              /\ outerRan' = Append(outerRan, FALSE)
              /\ UNCHANGED phase
           \/ /\ IsFunction(item)
              /\ \E s \in {"running", "fulfilled"} : fnState' = Append(fnState, s)
              /\ chain' = Append(chain, "pending")
              /\ outerRan' = Append(outerRan, FALSE)
              /\ UNCHANGED phase
           \/ /\ IsFunction(item)
              /\ fnState' = Append(fnState, "threw")
              /\ phase' = "rejected"
              /\ UNCHANGED <<chain, outerRan>>
    /\ UNCHANGED <<resolved, merged, observed, handed, result>>
    /\ UNCHANGED outOfOrder
    /\ accFrame

\* return await parentPromise, reached when the loop is over
LoopEnd ==
    /\ phase = "loop"
    /\ Len(fnState) = Len(array)
    /\ phase' = "await"
    /\ UNCHANGED <<fnState, chain, outerRan, resolved, merged, observed, handed, result>>
    /\ UNCHANGED outOfOrder
    /\ accFrame

\* A metadata function awaits the parent promise it was given.
FnAwaitParent(i) ==
    /\ Running
    /\ fnState[i] = "running"
    /\ fnState' = [fnState EXCEPT ![i] = "awaiting"]
    /\ UNCHANGED <<phase, chain, outerRan, resolved, merged, observed, handed, result>>
    /\ UNCHANGED outOfOrder
    /\ accFrame

\* ... and continues with the value the parent promise resolved to.
FnResume(i) ==
    /\ Running
    /\ fnState[i] = "awaiting"
    /\ PromiseState(ParentIndex(i)) = "fulfilled"
    /\ fnState' = [fnState EXCEPT ![i] = "resumed"]
    /\ observed' = (i :> [value |-> resolved, merged |-> merged]) @@ observed
    /\ UNCHANGED <<phase, chain, outerRan, resolved, merged, handed, result>>
    /\ UNCHANGED outOfOrder
    /\ accFrame

\* ... or with its rejection, which it lets through or catches.
FnParentRejected(i) ==
    /\ Running
    /\ fnState[i] = "awaiting"
    /\ PromiseState(ParentIndex(i)) = "rejected"
    /\ \E s \in {"rejected", "resumed"} : fnState' = [fnState EXCEPT ![i] = s]
    /\ UNCHANGED <<phase, chain, outerRan, resolved, merged, observed, handed, result>>
    /\ outOfOrder' = (outOfOrder \/ (fnState'[i] # "resumed" /\ EarlierUnsettled(i)))
    /\ accFrame

\* A metadata function settles.
FnSettle(i) ==
    /\ Running
    /\ fnState[i] \in {"running", "resumed"}
    /\ \E s \in {"fulfilled", "rejected"} : fnState' = [fnState EXCEPT ![i] = s]
    /\ UNCHANGED <<phase, chain, outerRan, resolved, merged, observed, handed, result>>
    /\ outOfOrder' = (outOfOrder \/ (fnState'[i] # "resumed" /\ EarlierUnsettled(i)))
    /\ accFrame

\* parentPromise.then((resolved) => ...) of iteration i runs.
OuterThen(i) ==
    /\ Running
    /\ chain[i] = "pending" /\ ~outerRan[i]
    /\ PromiseState(i - 1) = "fulfilled"
    /\ outerRan' = [outerRan EXCEPT ![i] = TRUE]
    /\ UNCHANGED <<phase, fnState, chain, resolved, merged, observed, handed, result>>
    /\ UNCHANGED outOfOrder
    /\ accFrame

\* layerMetadataPromise.then((exportedMetadata) => ...) of iteration i runs.
InnerThen(i) ==
    /\ Running
    /\ chain[i] = "pending"
    /\ CanMerge(i)
    /\ LET item == array[i]
       IN  /\ resolved' = MergeLayer(resolved, item)
           /\ merged' = IF LayerMetadata(item).isNull THEN merged ELSE Append(merged, i)
           /\ handed' = IF LayerMetadata(item).isNull THEN handed
                         ELSE handed \cup
                              {[layer |-> i, field |-> c.field, template |-> c.template] :
                                 c \in mergeTitleCalls(LayerSource(item),
                                                       TemplateStrings(resolved))}
    /\ chain' = [chain EXCEPT ![i] = "fulfilled"]
    /\ UNCHANGED <<phase, fnState, outerRan, observed, result>>
    /\ UNCHANGED outOfOrder
    /\ accFrame

\* A rejection passes down the chain: of the parent promise, or of the layer's.
Reject(i) ==
    /\ Running
    /\ chain[i] = "pending"
    /\ \/ PromiseState(i - 1) = "rejected"
       \/ outerRan[i] /\ LayerPromise(i) = "rejected"
    /\ chain' = [chain EXCEPT ![i] = "rejected"]
    /\ UNCHANGED <<phase, fnState, outerRan, resolved, merged, observed, handed, result>>
    /\ UNCHANGED outOfOrder
    /\ accFrame

\* return await parentPromise
Return ==
    /\ phase = "await"
    /\ \/ /\ PromiseState(Len(array)) = "fulfilled"
          /\ phase' = "resolved"
          /\ result' = resolved
       \/ /\ PromiseState(Len(array)) = "rejected"
          /\ phase' = "rejected"
          /\ UNCHANGED result
    /\ UNCHANGED <<fnState, chain, outerRan, resolved, merged, observed, handed>>
    /\ UNCHANGED outOfOrder
    /\ accFrame

FnAwaitsParent == \E i \in 1..Len(fnState) : FnAwaitParent(i)
FnResumes == \E i \in 1..Len(fnState) : FnResume(i)
FnParentRejects == \E i \in 1..Len(fnState) : FnParentRejected(i)
FnSettles == \E i \in 1..Len(fnState) : FnSettle(i)
OuterThenRuns == \E i \in 1..Len(chain) : OuterThen(i)
InnerThenRuns == \E i \in 1..Len(chain) : InnerThen(i)
Rejects == \E i \in 1..Len(chain) : Reject(i)

Accumulate ==
    \/ StartAccumulate \/ LoopIter \/ LoopEnd \/ Return
    \/ FnAwaitsParent \/ FnResumes \/ FnParentRejects \/ FnSettles
    \/ OuterThenRuns \/ InnerThenRuns \/ Rejects

MetaInit ==
    /\ phase = "collect" /\ array = <<>> /\ err = <<>>
    /\ fnState = <<>> /\ chain = <<>> /\ outerRan = <<>>
    /\ resolved = createDefaultMetadata
    /\ merged = <<>> /\ observed = <<>> /\ handed = {}
    /\ result = createDefaultMetadata
    /\ calls = <<>> /\ outOfOrder = FALSE

MergeIdle == /\ mPhase = "idle" /\ mTarget = createDefaultMetadata
             /\ mSource = EmptyObject /\ mTemplates = TemplateStringsNone(EmptyObject)
             /\ mOut = createDefaultMetadata
DiagIdle == dPhase = "idle" /\ dIn = <<>> /\ dOut = <<>>
RouterIdle == heap = <<>> /\ rCalls = <<>>

Init == MetaInit /\ MergeIdle /\ DiagIdle /\ RouterIdle
Next == Collect \/ Accumulate
Spec == Init /\ [][Next]_vars

(***************************************************************************)
(* The same program where every started step is eventually taken: the     *)
(* event loop runs every pending callback, and every metadata function     *)
(* called eventually settles.  The layers differ in the kind of export     *)
(* only.                                                                   *)
(***************************************************************************)
BehaviourLayers ==
    { [mod |-> StaticModule("app/layout", MetaA), metadata |-> NoStaticFiles],
      [mod |-> DynamicModule("app/blog/layout", SomeMetadata(MetaC)),
       metadata |-> NoStaticFiles] }

CollectBehaviours == CollectFrom(BehaviourLayers)
FairNext == CollectBehaviours \/ Accumulate
FairSpec == Init /\ [][FairNext]_vars /\ WF_vars(Accumulate)

(***************************************************************************)
(* The sequential reading of accumulateMetadata: merge folded over the     *)
(* first n items in list order, from createDefaultMetadata().              *)
(***************************************************************************)
RECURSIVE FoldMerge(_, _)
FoldMerge(items, n) ==
    IF n = 0 THEN createDefaultMetadata
    ELSE LET prev == FoldMerge(items, n - 1)
             item == items[n]
             metadata == IF ~item.exp.value.isNull THEN item.exp.value ELSE item.static
         IN  IF metadata.isNull THEN prev
             ELSE merge(prev, Spread(metadata.meta, item.static.meta),
                        [title |-> TitleTemplateOf(prev["title"]),
                         openGraph |-> SocialTemplateOf(prev["openGraph"]),
                         twitter |-> SocialTemplateOf(prev["twitter"])])

\* The layers among 1..n that come with exported or static-files metadata.
WithMetadata(items, n) ==
    {j \in 1..n : ~items[j].exp.value.isNull \/ ~items[j].static.isNull}

\* The elements of a sequence, and whether it is strictly increasing.
Range(q) == {q[k] : k \in DOMAIN q}
Increasing(q) == \A k \in 1..(Len(q) - 1) : q[k] < q[k + 1]

Settled(i) == fnState[i] \in {"fulfilled", "rejected", "threw"}

(***************************************************************************)
(* merge() on drawn inputs: a target accumulated from parent layers and a  *)
(* source with any subset of a set of keys, one or more per switch case.   *)
(***************************************************************************)
Absent == <<"absent">>

SourceChoices ==
    [title : {Absent, Str(""), Str("Docs"), <<"title", "%s | Docs", "Intro", "">>},
     openGraph : {Absent, Null, <<"openGraph", "og-docs", "%s | OGD", "Intro">>},
     description : {Absent, Str(""), Str("docs")},
     keywords : {Absent, Undefined, <<"k3">>},
     icons : {Absent, <<"icons", "apple:", "/exported-docs.png">>},
     metadataBase : {Absent, <<"url", "https://docs.example">>},
     alternates : {Absent, <<"canonical", "/docs">>},
     unknownKey : {Absent, Str("ignored")},
     other : {"absent", "empty", "layer"}]

SourceOf(c) ==
    LET plain == {k \in DOMAIN c \ {"other"} : c[k] # Absent}
        otherValue == IF c.other = "empty" THEN EmptyObject
                      ELSE [b |-> Str("layer"), c |-> Str("layer")]
    IN  [k \in plain \cup (IF c.other = "absent" THEN {} ELSE {"other"}) |->
            IF k = "other" THEN otherValue ELSE c[k]]

MergeTargets ==
    LET a == merge(createDefaultMetadata, MetaA, TemplateStrings(createDefaultMetadata))
    IN  {createDefaultMetadata, a, merge(a, MetaB, TemplateStrings(a))}

MergeTemplates ==
    {TemplateStringsNone(createDefaultMetadata),
     [title |-> "%s | Site", openGraph |-> "%s | OG", twitter |-> NoTemplate]}

MetaIdle ==
    /\ phase = "idle" /\ array = <<>> /\ err = <<>>
    /\ fnState = <<>> /\ chain = <<>> /\ outerRan = <<>>
    /\ resolved = createDefaultMetadata
    /\ merged = <<>> /\ observed = <<>> /\ handed = {}
    /\ result = createDefaultMetadata
    /\ calls = <<>> /\ outOfOrder = FALSE

MergeInit ==
    /\ mPhase = "input"
    /\ mTarget \in MergeTargets
    /\ \E c \in SourceChoices : mSource = SourceOf(c)
    /\ mTemplates \in MergeTemplates
    /\ mOut = mTarget

ApplyMerge ==
    /\ mPhase = "input"
    /\ mOut' = merge(mTarget, mSource, mTemplates)
    /\ mPhase' = "done"
    /\ UNCHANGED <<mTarget, mSource, mTemplates>>
    /\ UNCHANGED <<metaVars, diagVars, routerVars>>

InitMerge == MetaIdle /\ MergeInit /\ DiagIdle /\ RouterIdle
SpecMerge == InitMerge /\ [][ApplyMerge]_vars

(***************************************************************************)
(* createInitialRouterState.  A Map is an address into heap, the sequence  *)
(* of the contents of the Map objects allocated so far; new Map() appends  *)
(* an empty one.  A URL is the sequence of its non-empty parts.            *)
(***************************************************************************)
READY == "READY"

Concat(parts) == SelectSeq(parts, LAMBDA x : x # "")

\* createHrefFromUrl(url): pathname + search + hash
createHrefFromUrl(url) == Concat(<<url.pathname, url.search, url.hash>>)

NoLocation == [isNull |-> TRUE, pathname |-> "", search |-> "", hash |-> ""]
Locations ==
    {NoLocation,
     [isNull |-> FALSE, pathname |-> "/a", search |-> "", hash |-> ""],
     [isNull |-> FALSE, pathname |-> "/b", search |-> "?x=1", hash |-> "#top"]}

RouterParameters ==
    [initialTree : {"treeA", "treeB"},
     initialCanonicalUrl : {<<"/a">>, <<"/redirected">>},
     children : {"childrenA"},
     initialParallelRoutes : {1},
     isServer : BOOLEAN,
     location : Locations]

\* The bug "read location.href in the browser only".
createInitialRouterStateBrowserOnly(params, h) ==
    LET parallel == IF params.isServer THEN Len(h) + 1 ELSE params.initialParallelRoutes
        h1 == IF params.isServer THEN Append(h, {}) ELSE h
        h2 == Append(h1, {})
    IN  [heap |-> h2,
         state |->
           [tree |-> params.initialTree,
            cache |-> [status |-> READY, data |-> Null,
                       subTreeData |-> params.children, parallelRoutes |-> parallel],
            prefetchCache |-> Len(h2),
            pushRef |-> [pendingPush |-> FALSE, mpaNavigation |-> FALSE],
            focusAndScrollRef |-> [apply |-> FALSE],
            canonicalUrl |-> IF ~params.location.isNull /\ ~params.isServer
                             THEN createHrefFromUrl(params.location)
                             ELSE params.initialCanonicalUrl]]

createInitialRouterState(params, h) ==
    LET parallel == IF params.isServer THEN Len(h) + 1 ELSE params.initialParallelRoutes
        h1 == IF params.isServer THEN Append(h, {}) ELSE h
        h2 == Append(h1, {})
    IN  [heap |-> h2,
         state |->
           [tree |-> params.initialTree,
            cache |-> [status |-> READY, data |-> Null,
                       subTreeData |-> params.children, parallelRoutes |-> parallel],
            prefetchCache |-> Len(h2),
            pushRef |-> [pendingPush |-> FALSE, mpaNavigation |-> FALSE],
            focusAndScrollRef |-> [apply |-> FALSE],
            canonicalUrl |-> IF ~params.location.isNull
                             THEN createHrefFromUrl(params.location)
                             ELSE params.initialCanonicalUrl]]

\* The caller's initialParallelRoutes Map exists, with an entry, before any call.
RouterInit == heap = << {"children"} >> /\ rCalls = <<>>

CreateInitialRouterState ==
    /\ Len(rCalls) < MaxCalls
    /\ \E params \in RouterParameters :
          LET r == createInitialRouterState(params, heap)
          IN  /\ heap' = r.heap
              /\ rCalls' = Append(rCalls, [params |-> params, state |-> r.state])
    /\ UNCHANGED <<metaVars, mergeVars, diagVars>>

InitRouter == MetaIdle /\ MergeIdle /\ DiagIdle /\ RouterInit
SpecRouter == InitRouter /\ [][CreateInitialRouterState]_vars

(***************************************************************************)
(* The diagnostic formatter.  Text is a sequence of tokens; a literal of a *)
(* regular expression is a sequence of tokens too, and (.+) is a non-empty *)
(* run of tokens, taken greedily, from the leftmost place the expression   *)
(* matches.                                                                *)
(***************************************************************************)
Warning == 0
Error == 1
Suggestion == 2
Message == 3

At(text, lit, s) ==
    /\ s >= 1 /\ s + Len(lit) - 1 <= Len(text)
    /\ \A k \in 1..Len(lit) : text[s + k - 1] = lit[k]

Min(S) == CHOOSE x \in S : \A y \in S : x <= y
Max(S) == CHOOSE x \in S : \A y \in S : x >= y

\* The places a literal occurs at.
Occurrences(text, lit) == {s \in 1..Len(text) : At(text, lit, s)}

\* pre(.+)post: where the group can end for a match starting at s.
GroupEnds(text, s, pre, post) ==
    IF ~At(text, pre, s) THEN {}
    ELSE {e \in (s + Len(pre))..Len(text) : At(text, post, e + 1)}

\* pre(.+)post anywhere in the text: the start of the match, 0 when there is none,
\* and the group.
MatchStart(text, pre, post) ==
    LET starts == {s \in 1..Len(text) : GroupEnds(text, s, pre, post) # {}}
    IN  IF starts = {} THEN 0 ELSE Min(starts)

MatchGroup(text, pre, post) ==
    LET s == MatchStart(text, pre, post)
    IN  IF s = 0 THEN <<>>
        ELSE SubSeq(text, s + Len(pre), Max(GroupEnds(text, s, pre, post)))

\* pre(.+)mid(.+)post: both groups, <<>> when there is no match.
MatchGroups(text, pre, mid, post) ==
    LET ends1(s) == {e \in GroupEnds(text, s, pre, mid) :
                        GroupEnds(text, e + 1, mid, post) # {}}
        starts == {s \in 1..Len(text) : ends1(s) # {}}
    IN  IF starts = {} THEN <<>>
        ELSE LET s == Min(starts)
                 e1 == Max(ends1(s))
                 e2 == Max(GroupEnds(text, e1 + 1, mid, post))
             IN  <<SubSeq(text, s + Len(pre), e1),
                   SubSeq(text, e1 + 1 + Len(mid), e2)>>

\* chalk.<style>(text)
Chalk(style, text) == <<style>> \o text \o <<"</>">>
bold(text) == Chalk("<bold>", text)

\* The tokens of the TypeScript messages.
TYPE == "Type '"
DQ == "\""
NA == "' is not assignable to type '"
ROUTE == "Route<string>"
SP == " "
BAR == "|"
URLT == "URL"
END == "'."
Q == "'"
IMPORT == "'typeof import(\""
CLOSE == "\")'"
IMPOSSIBLE == "Impossible<\""
GT == "\">"
NL == "\n"
FILEHEADER == "// File: "

(***************************************************************************)
(* getFormattedLinkDiagnosticMessageText.  In                              *)
(*   /Type '"(.+)"' is not assignable to type 'Route<string> | URL'\./     *)
(* the bar separates two alternatives:                                     *)
(*   Type '"(.+)"' is not assignable to type 'Route<string>_   and  _URL'. *)
(* (_ a space), the second without a group; likewise in the second         *)
(* expression.  The result is <<>> for undefined.                          *)
(***************************************************************************)
\* message.match(/<first>|<second>/): <<>> for null, else <<the group>>, the group
\* being <<"undefined">> when the second alternative matched.
matchAlternatives(text, pre, post, second) ==
    LET s1 == MatchStart(text, pre, post)
        occ == Occurrences(text, second)
        s2 == IF occ = {} THEN 0 ELSE Min(occ)
    IN  IF s1 = 0 /\ s2 = 0 THEN <<>>
        ELSE IF s1 # 0 /\ (s2 = 0 \/ s1 <= s2) THEN <<MatchGroup(text, pre, post)>>
        ELSE << <<"undefined">> >>

linkMatch(text) ==
    LET first == matchAlternatives(text, <<TYPE, DQ>>, <<DQ, NA, ROUTE, SP>>,
                                   <<SP, URLT, END>>)
    IN  IF first # <<>> THEN first
        ELSE matchAlternatives(text, <<TYPE, DQ>>, <<DQ, NA, URLT, SP>>,
                               <<SP, ROUTE, END>>)

\* (the back quotes around "as Route" are written as single quotes here)
LinkText(href) ==
    <<"\"">> \o bold(href)
       \o <<"\" is not an existing route. If it is intentional, please type it explicitly with 'as Route'.">>

getFormattedLinkDiagnosticMessageText(diagnostic) ==
    IF diagnostic.message.isString /\ diagnostic.code = 2322
    THEN LET match == linkMatch(diagnostic.message.text)
         IN  IF match # <<>> THEN LinkText(match[1]) ELSE <<>>
    ELSE <<>>

(***************************************************************************)
(* getFormattedLayoutAndPageDiagnosticMessageText.  A message chain is     *)
(* [code, text, next], next a sequence of chains.                          *)
(***************************************************************************)
IsSpace(t) == t \in {NL, SP}

RECURSIVE trimStart(_)
trimStart(text) ==
    IF text # <<>> /\ IsSpace(Head(text)) THEN trimStart(Tail(text)) ELSE text

RECURSIVE trimEnd(_)
trimEnd(text) ==
    IF text # <<>> /\ IsSpace(text[Len(text)])
    THEN trimEnd(SubSeq(text, 1, Len(text) - 1)) ELSE text

trim(text) == trimEnd(trimStart(text))

\* text.trim().match(/^\/\/ File: (.+)\n/)?.[1] || '': the group cannot hold a
\* line break, so it ends before the first one.
sourceFilepathOf(file) ==
    IF ~file.present THEN <<>>
    ELSE LET text == trim(file.text)
             breaks == {n \in 1..Len(text) : text[n] = NL}
         IN  IF At(text, <<FILEHEADER>>, 1) /\ breaks # {} /\ Min(breaks) >= 3
             THEN SubSeq(text, 2, Min(breaks) - 1) ELSE <<>>

\* path.relative(from, to) for absolute paths
relative(from, to) ==
    IF At(to, from \o <<"/">>, 1) THEN SubSeq(to, Len(from) + 2, Len(to))
    ELSE <<"..", "/">> \o to

\* /'typeof import\(".+page"\)'/.test(text)
isPageImport(text) ==
    \E s, e \in 1..Len(text) :
       text[s] = IMPORT /\ e >= s + 2 /\ text[e] = "page" /\ At(text, <<CLOSE>>, e + 1)

\* /'typeof import\("(.+)"\)'.+'(.+)'/
matchesFilepathAndType(text) ==
    \E s, c, q1, q2 \in 1..Len(text) :
       /\ text[s] = IMPORT /\ c >= s + 2 /\ text[c] = CLOSE
       /\ q1 >= c + 2 /\ text[q1] = Q /\ q2 >= q1 + 2 /\ text[q2] = Q

\* /'typeof import\("(.+)"\)'.+Impossible<"(.+)">/: the second group, <<>> when
\* there is no match.
invalidExportOf(text) ==
    LET opens(c) == {o \in (c + 2)..Len(text) :
                       text[o] = IMPOSSIBLE /\ GroupEnds(text, o, <<IMPOSSIBLE>>, <<GT>>) # {}}
        closes(s) == {c \in (s + 2)..Len(text) : text[c] = CLOSE /\ opens(c) # {}}
        starts == {s \in 1..Len(text) : text[s] = IMPORT /\ closes(s) # {}}
    IN  IF starts = {} THEN <<>>
        ELSE LET o == Max(opens(Max(closes(Min(starts)))))
             IN  SubSeq(text, o + 1, Max(GroupEnds(text, o, <<IMPOSSIBLE>>, <<GT>>)))

\* ' '.repeat(indent * 2)
Spaces(indent) ==
    CASE indent = 1 -> "  "
      [] indent = 2 -> "    "
      [] indent = 3 -> "      "
      [] OTHER -> "        "

LineStart(indent) == <<NL, Spaces(indent)>>

\* types[2].replace('"__invalid_negative_number__"', 'number (>= 0)')
replaceInvalidNumber(text) ==
    LET hits == {k \in 1..Len(text) : text[k] = "\"__invalid_negative_number__\""}
    IN  IF hits = {} THEN text
        ELSE [k \in 1..Len(text) |-> IF k = Min(hits) THEN "number (>= 0)" ELSE text[k]]

\* What one case of processNext's switch appends to main.
itemText(item, indent, type) ==
    CASE item.code = 2200 ->
           LET mismatchedField == MatchGroup(item.text, <<"The types of '">>, <<Q>>)
           IN  IF mismatchedField # <<>>
               THEN LineStart(indent) \o <<"\"">> \o bold(mismatchedField)
                       \o <<"\" has the wrong type:">>
               ELSE <<>>
      [] item.code = 2322 ->
           LET types == MatchGroups(item.text, <<TYPE>>, <<NA>>, <<END>>)
           IN  IF types = <<>> THEN <<>>
               ELSE IF types[2] \in {<<"PageComponent">>, <<"LayoutComponent">>}
               THEN LineStart(indent)
                       \o <<"The exported ", type, " component isn't correctly typed.">>
               ELSE LineStart(indent) \o <<"Expected \"">>
                       \o bold(replaceInvalidNumber(types[2]))
                       \o <<"\", got \"">> \o bold(types[1]) \o <<"\".">>
      [] item.code = 2326 -> LineStart(indent) \o <<"Invalid configuration:">>
      [] item.code = 2739 ->
           LET invalidProp ==
                 MatchGroups(item.text, <<TYPE>>,
                             <<"' is missing the following properties from type '">>, <<Q>>)
           IN  IF invalidProp # <<>>
                  /\ invalidProp[1] \in {<<"LayoutProps">>, <<"PageProps">>}
               THEN LineStart(indent) \o <<"Prop \"">> \o invalidProp[2]
                       \o <<"\" is incompatible with the ", type, ".">>
               ELSE <<>>
      [] item.code = 2559 ->
           LET invalid == MatchGroup(item.text, <<TYPE>>, <<"' has">>)
           IN  IF invalid # <<>>
               THEN LineStart(indent) \o <<"Type \"">> \o bold(invalid)
                       \o <<"\" isn't allowed.">>
               ELSE <<>>
      [] item.code = 2741 ->
           LET incompatPageProp ==
                 MatchGroup(item.text, <<"Property '">>, <<"' is missing in type 'PageProps'">>)
               extraLayoutProp ==
                 MatchGroups(item.text, <<"Property '">>,
                             <<"' is missing in type 'LayoutProps' but required in type '">>,
                             <<Q>>)
           IN  IF incompatPageProp # <<>>
               THEN LineStart(indent) \o <<"Prop \"">> \o bold(incompatPageProp)
                       \o <<"\" will never be passed. Remove it from the component's props.">>
               ELSE IF extraLayoutProp # <<>>
               THEN LineStart(indent) \o <<"Prop \"">> \o bold(extraLayoutProp[1])
                       \o <<"\" is not valid for this Layout, remove it to fix.">>
               ELSE <<>>
      [] OTHER -> <<>>

RECURSIVE processNext(_, _, _, _)
processNext(main, indent, next, type) ==
    IF next = <<>> THEN main
    ELSE LET item == Head(next)
             own == main \o itemText(item, indent, type)
         IN  processNext(processNext(own, indent + 1, item.next, type),
                         indent, Tail(next), type)

\* <<>> for undefined
getFormattedLayoutAndPageDiagnosticMessageText(baseDir, diagnostic) ==
    LET message == diagnostic.message
        sourceFilepath == sourceFilepathOf(diagnostic.file)
    IN  IF sourceFilepath # <<>> /\ ~message.isString
        THEN LET relativeSourceFile == relative(baseDir, sourceFilepath)
                 type == IF isPageImport(message.text) THEN "Page" ELSE "Layout"
             IN  CASE message.code = 2344 /\ matchesFilepathAndType(message.text) ->
                        processNext(
                           <<type, " \"">> \o bold(relativeSourceFile)
                              \o <<"\" does not match the required types of a Next.js ",
                                   type, ".">>,
                           1, message.next, type)
                   [] message.code = 2345 /\ invalidExportOf(message.text) # <<>> ->
                        <<type, " \"">> \o bold(relativeSourceFile)
                           \o <<"\" exports an invalid \"">>
                           \o bold(invalidExportOf(message.text))
                           \o <<"\" field. ", type,
                                " should only export a default React component and configuration options. Learn more: https://nextjs.org/docs/messages/invalid-segment-export">>
                   [] OTHER -> <<>>
        ELSE <<>>

(***************************************************************************)
(* getFormattedDiagnostic(ts, baseDir, distDir, diagnostic, isAppDirEnabled)*)
(***************************************************************************)
\* ts.flattenDiagnosticMessageText(messageText, '\n')
RECURSIVE flattenChain(_, _)
flattenChain(chains, indent) ==
    IF chains = <<>> THEN <<>>
    ELSE LET c == Head(chains)
         IN  (IF indent > 0 THEN <<NL, Spaces(indent)>> ELSE <<>>)
                \o c.text \o flattenChain(c.next, indent + 1)
                \o flattenChain(Tail(chains), indent)

flattenDiagnosticMessageText(message) ==
    IF message.isString THEN message.text
    ELSE flattenChain(<<[code |-> message.code, text |-> message.text,
                         next |-> message.next]>>, 0)

\* path.join(baseDir, distDir, 'types')
TypesDirOf(baseDir, distDir) == baseDir \o <<"/">> \o distDir \o <<"/", "types">>

\* n.toString() for the line and column numbers in reach
numberToString(n) == <<"0", "1", "2", "3", "4", "5", "6", "7", "8", "9">>[n + 1]

\* fileName.startsWith('.')
StartsWithDot(path) == path # <<>> /\ Head(path) \in {".", "..", ".next"}

CategoryPrefix(category) ==
    CASE category = Warning -> Chalk("<yellow.bold>", <<"Type warning">>)
      [] category = Error -> Chalk("<red.bold>", <<"Type error">>)
      [] category \in {Suggestion, Message} ->
            Chalk("<cyan.bold>", <<IF category = 2 THEN "Suggestion" ELSE "Info">>)
      [] OTHER -> Chalk("<cyan.bold>",
                        <<IF category = 2 THEN "Suggestion" ELSE "Info">>)

isLayoutOrPageErrorOf(baseDir, distDir, diagnostic, isAppDirEnabled) ==
    /\ isAppDirEnabled = "true"
    /\ diagnostic.file.present
    /\ At(diagnostic.file.fileName, TypesDirOf(baseDir, distDir), 1)

\* What follows the reason: the location before, the code frame after.
WithLocation(baseDir, diagnostic, message) ==
    LET line == diagnostic.file.line + 1
        character == diagnostic.file.character + 1
        rel == relative(baseDir, diagnostic.file.fileName)
        fileName == IF StartsWithDot(rel) THEN rel ELSE <<"./">> \o rel
    IN  Chalk("<cyan>", fileName) \o <<":">> \o Chalk("<yellow>", <<numberToString(line)>>)
           \o <<":">> \o Chalk("<yellow>", <<numberToString(character)>>) \o <<NL>>
           \o message
           \o <<NL, "<codeFrame>", numberToString(line), numberToString(character)>>

\* The bug "no compiler text for a file under the types directory".
getFormattedDiagnosticNoFallback(baseDir, distDir, diagnostic, isAppDirEnabled) ==
    LET isLayoutOrPageError ==
            isLayoutOrPageErrorOf(baseDir, distDir, diagnostic, isAppDirEnabled)
        linkReason == getFormattedLinkDiagnosticMessageText(diagnostic)
        layoutReason ==
            IF linkReason = <<>> /\ isLayoutOrPageError
            THEN getFormattedLayoutAndPageDiagnosticMessageText(baseDir, diagnostic)
            ELSE <<>>
        reason == IF linkReason # <<>> THEN linkReason
                  ELSE IF isLayoutOrPageError THEN layoutReason
                  ELSE flattenDiagnosticMessageText(diagnostic.message)
        message == CategoryPrefix(diagnostic.category) \o <<": ">> \o reason \o <<NL>>
    IN  IF ~isLayoutOrPageError /\ diagnostic.file.present
        THEN WithLocation(baseDir, diagnostic, message)
        ELSE message

getFormattedDiagnostic(baseDir, distDir, diagnostic, isAppDirEnabled) ==
    LET isLayoutOrPageError ==
            isLayoutOrPageErrorOf(baseDir, distDir, diagnostic, isAppDirEnabled)
        linkReason == getFormattedLinkDiagnosticMessageText(diagnostic)
        layoutReason ==
            IF linkReason = <<>> /\ isLayoutOrPageError
            THEN getFormattedLayoutAndPageDiagnosticMessageText(baseDir, diagnostic)
            ELSE <<>>
        reason == IF linkReason # <<>> THEN linkReason
                  ELSE IF layoutReason # <<>> THEN layoutReason
                  ELSE flattenDiagnosticMessageText(diagnostic.message)
        message == CategoryPrefix(diagnostic.category) \o <<": ">> \o reason \o <<NL>>
    IN  IF ~isLayoutOrPageError /\ diagnostic.file.present
        THEN WithLocation(baseDir, diagnostic, message)
        ELSE message

(***************************************************************************)
(* The diagnostics drawn.                                                  *)
(***************************************************************************)
BaseDir == <<"/proj">>
DistDir == <<".next">>

StringMessage(text) == [isString |-> TRUE, code |-> 0, text |-> text, next |-> <<>>]
Chain(code, text, next) == [isString |-> FALSE, code |-> code, text |-> text, next |-> next]
Item(code, text, next) == [code |-> code, text |-> text, next |-> next]

NotAssignable(from, to) == <<TYPE>> \o from \o <<NA>> \o to \o <<END>>

StringMessages ==
    { StringMessage(NotAssignable(<<DQ, "/a", DQ>>, <<ROUTE, SP, BAR, SP, URLT>>)),
      StringMessage(NotAssignable(<<DQ, "/b", DQ>>, <<URLT, SP, BAR, SP, ROUTE>>)),
      StringMessage(NotAssignable(<<"number">>, <<"string", SP, BAR, SP, URLT>>)),
      StringMessage(NotAssignable(<<"Foo">>, <<"Bar", SP, BAR, SP, ROUTE>>)),
      StringMessage(NotAssignable(<<"number">>, <<"string">>)) }

PageImport == <<"Type ", IMPORT, "/proj/app/", "page", CLOSE>>
LayoutImport == <<"Type ", IMPORT, "/proj/app/", "layout", CLOSE>>
Constraint(name) == <<" does not satisfy the constraint ", Q, name, Q, ".">>

ChainMessages ==
    { Chain(2344, PageImport \o Constraint("PageModule"),
            <<Item(2200, <<"The types of '", "dynamic", Q,
                           " are incompatible between these types.">>,
                   <<Item(2322, NotAssignable(<<DQ, "force", DQ>>,
                                              <<DQ, "auto", DQ>>), <<>>)>>)>>),
      Chain(2344, LayoutImport \o Constraint("LayoutModule"),
            <<Item(2741, <<"Property '", "foo",
                           "' is missing in type 'LayoutProps' but required in type '",
                           "Props", Q, ".">>, <<>>),
              Item(2326, <<"Types of property 'revalidate' are incompatible.">>,
                   <<Item(2322, NotAssignable(<<"-1">>,
                                  <<"\"__invalid_negative_number__\"">>), <<>>)>>)>>),
      Chain(2344, PageImport \o Constraint("PageModule"),
            <<Item(2322, NotAssignable(<<"() => void">>, <<"PageComponent">>), <<>>),
              Item(2739, <<TYPE, "PageProps",
                           "' is missing the following properties from type '",
                           "Props", Q, ": a, b">>, <<>>),
              Item(2559, <<TYPE, "number", "' has",
                           " no properties in common with type 'Config'.">>, <<>>),
              Item(2741, <<"Property '", "bar", "' is missing in type 'PageProps'",
                           " but required in type 'Props'.">>, <<>>),
              Item(1005, <<"';' expected.">>, <<>>)>>),
      Chain(2345, <<"Argument of type ", IMPORT, "/proj/app/", "layout", CLOSE,
                    " is not assignable to parameter of type '", IMPOSSIBLE, "foo", GT,
                    END>>, <<>>),
      Chain(2344, <<TYPE, "Foo", Q>> \o Constraint("Bar"), <<>>),
      Chain(2345, <<"Argument of type ", Q, "Foo", Q,
                    " is not assignable to parameter of type ", Q, "Bar", END>>, <<>>),
      Chain(2322, NotAssignable(<<"number">>, <<"string">>),
            <<Item(2322, NotAssignable(<<"1">>, <<"2">>), <<>>)>>) }

NoFile == [present |-> FALSE, fileName |-> <<>>, text |-> <<>>, line |-> 0, character |-> 0]
SourceFile(fileName, text, line, character) ==
    [present |-> TRUE, fileName |-> fileName, text |-> text, line |-> line,
     character |-> character]

Files ==
    { NoFile,
      SourceFile(<<"/proj", "/", ".next", "/", "types", "/", "app", "/", "page.ts">>,
                 <<FILEHEADER, "/proj", "/", "app", "/", "page.tsx", NL,
                   "import * as entry from '../../../app/page'", NL>>, 4, 2),
      SourceFile(<<"/proj", "/", ".next", "/", "types", "/", "link.d.ts">>,
                 <<"declare module 'next/link'", NL>>, 1, 0),
      SourceFile(<<"/proj", "/", "app", "/", "page.tsx">>,
                 <<"import Link from 'next/link'", NL>>, 2, 7) }

Diagnostics ==
    [category : 0..4,
     code : {2322, 2344, 2345},
     message : StringMessages \cup ChainMessages,
     file : Files,
     isAppDirEnabled : {"true", "false", "undefined"}]

DiagInit == dPhase = "input" /\ dIn \in Diagnostics /\ dOut = <<>>

FormatDiagnostic ==
    /\ dPhase = "input"
    /\ dOut' = getFormattedDiagnostic(BaseDir, DistDir, dIn, dIn.isAppDirEnabled)
    /\ dPhase' = "done"
    /\ UNCHANGED dIn
    /\ UNCHANGED <<metaVars, mergeVars, routerVars>>

InitDiag == MetaIdle /\ MergeIdle /\ DiagInit /\ RouterIdle
SpecDiag == InitDiag /\ [][FormatDiagnostic]_vars

----------------------------------------------------------------------------
(* C1: every metadata function that awaits the parent promise it was given
   sees the accumulated metadata with exactly the layers before its own
   merged, in list order; and no layer from its own onwards is merged while
   the function has not settled. *)
C1_ParentSeesExactlyEarlierLayers ==
    /\ \A i \in DOMAIN observed :
          /\ observed[i].value = FoldMerge(array, i - 1)
          /\ Range(observed[i].merged) = WithMetadata(array, i - 1)
          /\ Increasing(observed[i].merged)
    /\ \A i \in 1..Len(fnState) :
          (IsFunction(array[i]) /\ fnState[i] # "fulfilled")
             => \A j \in Range(merged) : j < i
    /\ Increasing(merged)

\* A later function has seen its parent although an earlier one settled after it.
C1_Witness ==
    /\ Len(array) = 3
    /\ 3 \in DOMAIN observed
    /\ IsFunction(array[2]) /\ 2 \in Range(observed[3].merged)
    /\ fnState[3] = "resumed"
    /\ outOfOrder
    /\ observed[3].value # createDefaultMetadata

(* C5: the metadata accumulateMetadata resolves to is merge folded over the
   items in list order from the default metadata, each layer with metadata
   merged exactly once and the others never, whatever order the metadata
   functions completed in. *)
C5_ResultIsOrderedFold ==
    /\ phase = "resolved" =>
          /\ result = FoldMerge(array, Len(array))
          /\ Range(merged) = WithMetadata(array, Len(array))
    /\ Len(merged) = Cardinality(Range(merged))
    /\ Increasing(merged)

\* Resolved with three function layers of which the last one settled first.
C5_Witness ==
    /\ phase = "resolved"
    /\ Len(array) = 3
    /\ \A i \in 1..3 : IsFunction(array[i])
    /\ outOfOrder
    /\ Len(merged) >= 2

(* C10: the templates merge hands to mergeTitle for layer i are those the
   accumulated metadata holds after the layers before i (null when none),
   never one introduced by layer i itself; the template a layer introduces
   is the one handed over for the next layer that brings a title. *)
OwnTitleTemplate(item) ==
    LET src == LayerSource(item)
    IN  IF "title" \in DOMAIN src /\ Truthy(src["title"]) /\ src["title"][1] = "title"
        THEN TemplateOrNull(src["title"][2]) ELSE NoTemplate

HeldTemplate(held, field) ==
    IF field = "title" THEN TitleTemplateOf(held["title"])
    ELSE SocialTemplateOf(held[field])

\* C10: the templates handed to a layer's merge are the ones held before it.
C10_TemplatesReadBeforeMerge ==
    \A h \in handed :
       /\ h.template = HeldTemplate(FoldMerge(array, h.layer - 1), h.field)
       /\ (h.field = "title" /\ h.layer > 1
              /\ ~LayerMetadata(array[h.layer - 1]).isNull
              /\ "title" \in DOMAIN LayerSource(array[h.layer - 1])
              /\ Truthy(LayerSource(array[h.layer - 1])["title"]))
             => h.template = OwnTitleTemplate(array[h.layer - 1])

\* Layer 1 introduces a template, layer 2 introduces another and gets layer 1's.
C10_Witness ==
    /\ [layer |-> 1, field |-> "title", template |-> NoTemplate] \in handed
    /\ [layer |-> 2, field |-> "title", template |-> "%s | Site"] \in handed
    /\ Len(array) >= 2 /\ OwnTitleTemplate(array[2]) = "%s | Blog"

(* C2: collectMetadata on a module that is not a client reference and
   exports both metadata and generateMetadata fails with an Error naming the
   module path and leaves the array as it was; a client reference never
   fails so and contributes a null export. *)
ExportsBoth(mod) == mod.present /\ mod.hasMetadata /\ mod.hasGenerate

\* C2: a module exporting both throws the fixed error and pushes nothing; a client reference pushes a null export.
C2_BothExportsThrowsAndPushesNothing ==
    /\ [](\A k \in 1..Len(calls) :
            /\ (ExportsBoth(calls[k].mod) /\ ~calls[k].mod.client)
                  => /\ phase = "error" /\ k = Len(calls) /\ Len(array) = k - 1
                     /\ err # <<>> /\ err[1] = calls[k].mod.path
                     /\ err[Len(err)] = calls[k].mod.path
            /\ calls[k].mod.client
                  => /\ Len(array) >= k /\ array[k].exp = NullExport
                     /\ ~(phase = "error" /\ k = Len(calls)))
    /\ [][(Len(calls') > Len(calls) /\ phase' = "error") => array' = array]_vars

\* A call has failed after two layers were pushed, one of them a client reference
\* exporting both.
C2_Witness ==
    /\ phase = "error" /\ Len(array) = 2 /\ Len(calls) = 3
    /\ err[1] = "app/both/layout"
    /\ \E k \in 1..2 : calls[k].mod.client /\ ExportsBoth(calls[k].mod)

(* C7: the icons merged for a layer are those of its static icon/apple
   files when it has at least one such file, and otherwise (no
   components.metadata, or one without any icon or apple entry) those of
   the layer's exported metadata. *)
HasStaticIconFiles(metadata) ==
    /\ metadata.present
    /\ \E type \in {"icon", "apple"} \cap DOMAIN metadata.files :
          Len(metadata.files[type]) > 0

\* C7: the icons merged are the static files' only when the layer has an icon or apple file, else the exported ones.
C7_StaticIconsOverrideOnlyWhenPresent ==
    [][\A i \in 1..Len(chain) :
         (chain[i] = "pending" /\ chain'[i] = "fulfilled"
            /\ ~Exported(array[i]).isNull /\ "icons" \in DOMAIN Exported(array[i]).meta)
           => resolved'["icons"] =
                 IF HasStaticIconFiles(calls[i].metadata)
                 THEN resolveBasic("icons", array[i].static.meta["icons"])
                 ELSE resolveBasic("icons", Exported(array[i]).meta["icons"])]_vars

(* C9: when every metadata function settles, the promise returned by
   accumulateMetadata settles; it rejects only if some function failed, it
   rejects if one did, and no layer after a failed one is merged. *)
Failed(i) == i <= Len(fnState) /\ fnState[i] \in {"rejected", "threw"}

\* C9: once every function settles the returned promise settles, and nothing is merged after a rejection.
C9_AccumulateCompletes ==
    /\ (phase = "loop") ~> (phase \in {"resolved", "rejected"})
    /\ [](phase = "rejected" => \E i \in 1..MaxLayers : Failed(i))
    /\ \A i \in 1..MaxLayers : Failed(i) ~> (phase = "rejected")
    /\ [](\A i \in 1..MaxLayers : Failed(i) => \A j \in Range(merged) : j < i)

\* Resolved although the function of layer 3 awaited its parent promise and the
\* function of layer 2 settled before that of layer 1.
C9_Witness ==
    /\ phase = "resolved" /\ Len(array) = 3
    /\ \A i \in 1..3 : IsFunction(array[i])
    /\ 3 \in DOMAIN observed
    /\ outOfOrder

(* C8: merge changes only the fields whose key the source has: every other
   field keeps the accumulated value; a present but falsy title leaves the
   title as it was; every field but 'other' is replaced by a value that does
   not depend on the accumulated one, and 'other' keeps the parent's keys
   with the layer's keys winning. *)
Replaced(k) ==
    k \in (DOMAIN mSource \cap ResolvedKeys) \ {"other"}
       /\ (k = "title" => Truthy(mSource["title"]))

\* C8: merge changes only the fields the source names; 'other' alone combines target and source.
C8_MergeTouchesOnlySourceKeys ==
    mPhase = "done" =>
       /\ DOMAIN mOut = DOMAIN mTarget
       /\ \A k \in ResolvedKeys \ DOMAIN mSource : mOut[k] = mTarget[k]
       /\ ("title" \in DOMAIN mSource /\ ~Truthy(mSource["title"]))
             => mOut["title"] = mTarget["title"]
       /\ \A k \in ResolvedKeys : Replaced(k) =>
             mOut[k] = merge(createDefaultMetadata, mSource, mTemplates)[k]
       /\ "other" \in DOMAIN mSource =>
             /\ DOMAIN mOut["other"] = DOMAIN mTarget["other"] \cup DOMAIN mSource["other"]
             /\ \A o \in DOMAIN mOut["other"] :
                   mOut["other"][o] = IF o \in DOMAIN mSource["other"]
                                      THEN mSource["other"][o] ELSE mTarget["other"][o]

\* A layer with a falsy title, its own 'other' and no description nor icons is
\* merged into metadata that has all four.
C8_Witness ==
    /\ mPhase = "done"
    /\ "title" \in DOMAIN mSource /\ mSource["title"] = Str("")
    /\ "other" \in DOMAIN mSource /\ DOMAIN mSource["other"] = {"b", "c"}
    /\ {"description", "icons"} \cap DOMAIN mSource = {}
    /\ "keywords" \in DOMAIN mSource
    /\ mTarget["title"] # Null /\ mTarget["description"] # Null
    /\ mTarget["icons"] # Null
    /\ DOMAIN mOut["other"] = {"a", "b", "c"}
    /\ mOut["keywords"] # mTarget["keywords"]

(* C4: for every combination of parameters createInitialRouterState returns
   tree = initialTree; a READY cache with null data, subTreeData = children
   and parallelRoutes a new empty Map when isServer and initialParallelRoutes
   otherwise; an empty prefetchCache; pendingPush, mpaNavigation and apply
   false; canonicalUrl = createHrefFromUrl(location) when location is not
   null, whatever isServer, and initialCanonicalUrl when it is null.  The
   Maps are new in each call: no two states share a prefetchCache. *)
MapsOf(call) ==
    {call.state.prefetchCache}
       \cup (IF call.params.isServer THEN {call.state.cache.parallelRoutes} ELSE {})

\* C4: the initial router state has the claimed fields and Maps of its own.
C4_InitialRouterState ==
    /\ \A k \in 1..Len(rCalls) :
          LET p == rCalls[k].params
              st == rCalls[k].state
          IN  /\ st.tree = p.initialTree
              /\ st.cache.status = "READY" /\ st.cache.data = Null
              /\ st.cache.subTreeData = p.children
              /\ p.isServer => /\ st.cache.parallelRoutes # p.initialParallelRoutes
                                /\ st.cache.parallelRoutes # st.prefetchCache
                                /\ heap[st.cache.parallelRoutes] = {}
              /\ ~p.isServer => st.cache.parallelRoutes = p.initialParallelRoutes
              /\ heap[st.prefetchCache] = {}
              /\ st.prefetchCache # p.initialParallelRoutes
              /\ st.pushRef = [pendingPush |-> FALSE, mpaNavigation |-> FALSE]
              /\ st.focusAndScrollRef = [apply |-> FALSE]
              /\ st.canonicalUrl =
                    IF p.location.isNull THEN p.initialCanonicalUrl
                    ELSE Concat(<<p.location.pathname, p.location.search, p.location.hash>>)
    /\ \A k, l \in 1..Len(rCalls) :
          k # l => MapsOf(rCalls[k]) \cap MapsOf(rCalls[l]) = {}

\* Two states made on the server, one from a location and one without.
C4_Witness ==
    /\ Len(rCalls) = 2
    /\ rCalls[1].params.isServer /\ ~rCalls[1].params.location.isNull
    /\ rCalls[1].state.canonicalUrl = <<"/b", "?x=1", "#top">>
    /\ rCalls[1].params.initialCanonicalUrl = <<"/a">>
    /\ rCalls[2].params.isServer /\ rCalls[2].params.location.isNull
    /\ rCalls[2].state.prefetchCache # rCalls[1].state.prefetchCache

(* C3: the reason is the link rewrite when the link pattern matched;
   otherwise the layout/page rewrite when isAppDirEnabled is set, the file
   name starts with <baseDir>/<distDir>/types and a layout/page pattern
   matched; otherwise (unknown code, no match, no '// File:' header, string
   message) the compiler's flattened message text.  It is never empty, and
   it follows the category prefix: 'Type warning' for 0, 'Type error' for 1,
   'Suggestion' for 2, 'Info' for anything else. *)
LinkMatched(d) ==
    d.message.isString /\ d.code = 2322 /\ linkMatch(d.message.text) # <<>>

UnderTypes(d) ==
    d.file.present /\ At(d.file.fileName, <<"/proj", "/", ".next", "/", "types">>, 1)

LayoutRewrite(d) == getFormattedLayoutAndPageDiagnosticMessageText(BaseDir, d)

FallsBack(d) ==
    ~LinkMatched(d)
       /\ (\/ d.isAppDirEnabled # "true" \/ ~UnderTypes(d)
           \/ d.message.isString
           \/ sourceFilepathOf(d.file) = <<>>
           \/ d.message.code \notin {2344, 2345}
           \/ (d.message.code = 2344 /\ ~matchesFilepathAndType(d.message.text))
           \/ (d.message.code = 2345 /\ invalidExportOf(d.message.text) = <<>>))

ExpectedReason(d) ==
    IF LinkMatched(d) THEN LinkText(linkMatch(d.message.text)[1])
    ELSE IF FallsBack(d) THEN flattenDiagnosticMessageText(d.message)
    ELSE LayoutRewrite(d)

PrefixLabel(category) ==
    CASE category = 0 -> "Type warning"
      [] category = 1 -> "Type error"
      [] category = 2 -> "Suggestion"
      [] OTHER -> "Info"

\* The formatted text holds: the prefix label, its closing style, ": ", the reason
\* and a line break.
HasReasonAfterPrefix(out, d, reason) ==
    \E q \in 1..Len(out) :
       At(out, <<PrefixLabel(d.category), "</>", ": ">> \o reason \o <<NL>>, q)

\* C3: the reason is the rewrite that matched, else the compiler's text, never empty, after the category prefix.
C3_ReasonFallsBackToCompilerText ==
    dPhase = "done" =>
       /\ ExpectedReason(dIn) # <<>>
       /\ HasReasonAfterPrefix(dOut, dIn, ExpectedReason(dIn))
       /\ (~LinkMatched(dIn) /\ ~FallsBack(dIn)) => LayoutRewrite(dIn) # <<>>

\* A chain of a code the layout/page rewrite does not know, in a file under the
\* types directory with a header: the compiler's text is the reason.
C3_Witness ==
    /\ dPhase = "done"
    /\ dIn.isAppDirEnabled = "true" /\ UnderTypes(dIn)
    /\ sourceFilepathOf(dIn.file) # <<>>
    /\ ~dIn.message.isString /\ dIn.message.code = 2322
    /\ dIn.category = 4
    /\ At(dOut, <<"<cyan.bold>", "Info", "</>", ": ", TYPE, "number", NA, "string", END,
                  NL, "  ", TYPE, "1", NA, "2", END, NL>>, 1)

(* C6: a diagnostic is rewritten into '"<href>" is not an existing route...'
   only when its code is 2322 and its message is a string of the form
   Type '"<href>"' is not assignable to type 'Route<string> | URL'.
   (or 'URL | Route<string>'), and the href named is the quoted string of
   that message; every other message gets no link rewrite. *)
RouteMessageHref(text) ==
    LET a == MatchGroup(text, <<TYPE, DQ>>, <<DQ, NA, ROUTE, SP, BAR, SP, URLT, END>>)
    IN  IF a # <<>> THEN a
        ELSE MatchGroup(text, <<TYPE, DQ>>, <<DQ, NA, URLT, SP, BAR, SP, ROUTE, END>>)

IsLinkRewrite(out) ==
    \E q \in 1..Len(out) : out[q] = LinkText(<<>>)[Len(LinkText(<<>>))]

\* C6: the link rewrite happens exactly for code-2322 Route/URL string messages, naming their quoted href.
C6_LinkRewriteOnlyForRouteMessages ==
    dPhase = "done" =>
       LET isRouteMessage == /\ dIn.code = 2322 /\ dIn.message.isString
                             /\ RouteMessageHref(dIn.message.text) # <<>>
       IN  /\ IsLinkRewrite(dOut) <=> isRouteMessage
           /\ isRouteMessage =>
                 HasReasonAfterPrefix(dOut, dIn,
                                      LinkText(RouteMessageHref(dIn.message.text)))

====
